---- MODULE Spec2Model ----
(***************************************************************************)
(* Model of Code/Bertcls.py: the dataset adapter (SarcasmDataset), the     *)
(* batch loader as main configures it, train, evaluate and main's epoch    *)
(* loop with its best-accuracy checkpoint.                                 *)
(*                                                                         *)
(* The pretrained encoder, the tokenizer's vocabulary and the optimizer's  *)
(* arithmetic are external.  The model keeps of them what the script       *)
(* relies on: a text is its sequence of word pieces; the parameters are    *)
(* the classifier they induce on encoded inputs (pred) plus whether they   *)
(* are finite numbers; a row of logits is its argmax class, or NaN when    *)
(* the row is not finite; the cross-entropy of a batch is abstracted to    *)
(* its number of misclassified rows, or NaN.  A ratio a / b is kept as the *)
(* pair <<a, b>> and compared by cross multiplication.                     *)
(***************************************************************************)
EXTENDS Integers, Sequences, FiniteSets, TLC

\* ------------------------------------------------------------------ bounds
\* most lines the input file holds
MaxLines == 3
\* most word pieces of a headline
MaxTextLen == 5
\* most records of a dataset whose records are fetched one by one
MaxRecords == 2
\* most calls a direct caller makes of one function on one argument
MaxCalls == 2
\* SarcasmDataset's max_length (128 in the source, scaled down)
max_length == 4
\* DataLoader's batch_size (32 in the source, scaled down)
batch_size == 2

\* --------------------------------------------------------- program constants
epochs == 3
num_classes == 2

\* a float: a finite value or NaN
Fin(v) == [finite |-> TRUE, v |-> v]
NaN == [finite |-> FALSE, v |-> 0]
Classes == 0 .. (num_classes - 1)

\* ------------------------------------------------------------------- inputs
\* a headline of k word pieces
Text(k) == [j \in 1 .. k |-> "w"]
Texts == {Text(k) : k \in 0 .. MaxTextLen}
\* the headline of the records main is run on
Headlines == {Text(MaxTextLen)}

\* A line of the file: whether it is JSON text, and the object it denotes, a
\* record of its keys.
JsonLine(obj) == [json |-> TRUE, entry |-> obj]
Garbage == [json |-> FALSE, entry |-> <<>>]
GoodLines == {JsonLine([headline |-> h, is_sarcastic |-> l]) : h \in Headlines, l \in Classes}
BadLines == {Garbage, JsonLine([headline |-> Text(MaxTextLen)]), JsonLine([is_sarcastic |-> 0])}
Lines == GoodLines \cup BadLines

SeqsUpTo(S, n) == UNION {[1 .. k -> S] : k \in 0 .. n}
Files == SeqsUpTo(Lines, MaxLines)

\* ------------------------------------------------------------------ helpers
RECURSIVE SumSeq(_)
SumSeq(s) == IF s = <<>> THEN 0 ELSE Head(s) + SumSeq(Tail(s))

Min(a, b) == IF a < b THEN a ELSE b

\* ceil(n / b) for b > 0
CeilDiv(n, b) == (n + b - 1) \div b

\* a / b > c / d for ratios with positive denominators
RatGT(x, y) == x[1] * y[2] > y[1] * x[2]
RatGE(x, y) == x[1] * y[2] >= y[1] * x[2]
RatEQ(x, y) == x[1] * y[2] = y[1] * x[2]

Orders(n) == {p \in [1 .. n -> 1 .. n] : \A i, j \in 1 .. n : p[i] = p[j] => i = j}

\* float addition as total_loss += loss.item() performs it: NaN absorbs
AddLoss(a, b) == IF a.finite /\ b.finite THEN Fin(a.v + b.v) ELSE NaN

\* ------------------------------------------------------- SarcasmDataset
\* tokenizer.encode_plus(text, add_special_tokens=True, max_length=maxlen,
\* padding='max_length', truncation=True, return_attention_mask=True):
\* keep the first maxlen - 2 word pieces, wrap them in [CLS] .. [SEP], pad on
\* the right to maxlen; the mask is 1 on what is no padding.
encode_plus_no_truncation(text, maxlen) ==
    LET toks == <<"[CLS]">> \o text \o <<"[SEP]">>
        npad == IF Len(toks) < maxlen THEN maxlen - Len(toks) ELSE 0
    IN  [input_ids |-> toks \o [j \in 1 .. npad |-> "[PAD]"],
         attention_mask |-> [j \in 1 .. Len(toks) |-> 1] \o [j \in 1 .. npad |-> 0]]

encode_plus(text, maxlen) ==
    LET kept == IF Len(text) + 2 > maxlen THEN SubSeq(text, 1, maxlen - 2) ELSE text
        toks == <<"[CLS]">> \o kept \o <<"[SEP]">>
        npad == maxlen - Len(toks)
    IN  [input_ids |-> toks \o [j \in 1 .. npad |-> "[PAD]"],
         attention_mask |-> [j \in 1 .. Len(toks) |-> 1] \o [j \in 1 .. npad |-> 0]]

\* SarcasmDataset.__len__
DatasetLen(data) == Len(data)

\* SarcasmDataset.__getitem__(idx); records are numbered from 1 here
GetItem(data, idx) ==
    LET enc == encode_plus(data[idx][1], max_length)
    IN  [input_ids |-> enc.input_ids,
         attention_mask |-> enc.attention_mask,
         labels |-> data[idx][2]]

\* ------------------------------------------------------------ the model
\* the encoded inputs the classifier is ever applied to
Inputs == {<<encode_plus(h, max_length).input_ids, encode_plus(h, max_length).attention_mask>> : h \in Headlines}
FiniteParams == [pred : [Inputs -> Classes], finite : {TRUE}]
NaNParams == [pred |-> [x \in Inputs |-> 0], finite |-> FALSE]
ParamSpace == FiniteParams \cup {NaNParams}

\* one row of logits in eval mode (dropout is the identity): a function of the
\* parameters and the input alone; parameters that are not finite give a row
\* that is not finite
EvalRow(p, ex) == IF p.finite THEN Fin(p.pred[<<ex.input_ids, ex.attention_mask>>]) ELSE NaN

\* the rows forward can produce in train mode: dropout zeroes features at
\* random, so every class, and an overflow, can come out
TrainRows(p) == IF p.finite THEN {Fin(c) : c \in Classes} \cup {NaN} ELSE {NaN}

\* outputs.argmax(dim=1) of one row; argmax of a row of NaN is index 0
ArgMax(row) == IF row.finite THEN row.v ELSE 0

\* (outputs.argmax(dim=1) == labels).sum().item()
NumCorrect(outs, b) == SumSeq([i \in 1 .. Len(b) |-> IF ArgMax(outs[i]) = b[i].labels THEN 1 ELSE 0])

\* criterion(outputs, labels): NaN as soon as one row is not finite
CrossEntropy(outs, b) ==
    IF \E i \in 1 .. Len(outs) : ~outs[i].finite
    THEN NaN
    ELSE Fin(SumSeq([i \in 1 .. Len(b) |-> IF outs[i].v = b[i].labels THEN 0 ELSE 1]))

\* --------------------------------------------------------- the DataLoader
\* len(dataloader) with drop_last left at its default False
LoaderLen(n) == CeilDiv(n, batch_size)

\* how many records the next batch holds when pos of n are consumed; 0 ends
\* the iteration
BatchSizeAt_drop_last(n, pos) == IF n - pos >= batch_size THEN batch_size ELSE 0

BatchSizeAt(n, pos) == Min(batch_size, n - pos)

\* the orders one iteration can visit the records in
LoaderOrders(n, shuffle) == IF shuffle THEN Orders(n) ELSE {[i \in 1 .. n |-> i]}

BatchIndices(it, k) == [i \in 1 .. k |-> it.order[it.pos + i]]

\* ------------------------------------------------------------------ state
VARIABLES
    file,               \* the lines of Sarcasm_Headlines_Dataset.json
    pc,                 \* where the script is
    ctx,                \* who called: "main", or a direct caller of one function
    err,                \* the exception that ended the run, "" if none
    loadPos,            \* lines the dataset under construction has read
    train_data,         \* train_dataset.data
    val_data,           \* val_dataset.data
    params,             \* model.state_dict()
    training,           \* model.training
    grad,               \* the .grad buffers: the batches summed in them, finiteness
    optSteps,           \* optimizer steps applied
    schedSteps,         \* scheduler steps applied
    num_training_steps, \* what the scheduler was configured with
    it,                 \* the loader iteration in progress
    batch,              \* the batch in hand
    outputs,            \* its logits
    loss,               \* its loss
    total_loss, total_correct,
    train_ret,          \* (train_loss, train_accuracy)
    val_ret,            \* (val_loss, val_accuracy)
    epoch,
    best_accuracy,
    checkpoint,         \* best_model.pt
    \* history, for stating properties
    passLog,            \* the record numbers of each batch of the pass in progress
    did,                \* the steps taken on the batch in hand
    entry,              \* parameters, gradients and step count when evaluate was entered
    trained,            \* parameters when train last returned
    hist,               \* one entry per finished epoch
    ckptWrites,         \* torch.save calls
    nanSeen,            \* a training loss was not finite
    results,            \* what a direct caller's calls returned
    got                 \* what __getitem__ returned so far, per record

vars == <<file, pc, ctx, err, loadPos, train_data, val_data, params, training, grad,
          optSteps, schedSteps, num_training_steps, it, batch, outputs, loss,
          total_loss, total_correct, train_ret, val_ret, epoch, best_accuracy,
          checkpoint, passLog, did, entry, trained, hist, ckptWrites, nanSeen,
          results, got>>

dataVars == <<file, loadPos, train_data, val_data>>
modelVars == <<params, training, grad, optSteps>>
loopVars == <<it, batch, outputs, loss, total_loss, total_correct>>
mainVars == <<epoch, best_accuracy, checkpoint, schedSteps, num_training_steps>>
histVars == <<hist, ckptWrites, nanSeen, results, got>>

NoIter == [order |-> <<>>, pos |-> 0]
NoGrad == [from |-> {}, finite |-> TRUE]
NoCheckpoint == [exists |-> FALSE, state |-> NaNParams]
NoRet == << <<Fin(0), 1>>, <<0, 1>> >>
NoEntry == [params |-> NaNParams, grad |-> NoGrad, optSteps |-> 0]

\* the batch in hand is the nb-th of epoch e
Tag == <<epoch, Len(passLog)>>

InitCommon ==
    /\ err = ""
    /\ loadPos = 0
    /\ train_data = <<>>
    /\ grad = NoGrad
    /\ optSteps = 0
    /\ schedSteps = 0
    /\ num_training_steps = 0
    /\ it = NoIter
    /\ batch = <<>>
    /\ outputs = <<>>
    /\ loss = Fin(0)
    /\ total_loss = Fin(0)
    /\ total_correct = 0
    /\ train_ret = NoRet
    /\ val_ret = NoRet
    /\ epoch = 0
    /\ best_accuracy = <<0, 1>>
    /\ checkpoint = NoCheckpoint
    /\ passLog = <<>>
    /\ did = <<>>
    /\ entry = NoEntry
    /\ trained = NaNParams
    /\ hist = <<>>
    /\ ckptWrites = 0
    /\ nanSeen = FALSE
    /\ results = <<>>

\* main starts on some file, with the pretrained encoder and a freshly
\* initialised head
Init ==
    /\ InitCommon
    /\ file \in Files
    /\ pc = "load_train"
    /\ ctx = "main"
    /\ val_data = <<>>
    /\ training = TRUE
    /\ params \in FiniteParams
    /\ got = <<>>

Abort(e) == pc' = "aborted" /\ err' = e

\* ---------------------------------------------- SarcasmDataset.__init__
\* One turn of `for line in file`, for the dataset under construction:
\* json.loads raises on text that is no JSON, entry[...] raises KeyError on a
\* missing key, and either ends the run; after the last line the constructor
\* returns.
DatasetInit_skip_bad ==
    /\ pc \in {"load_train", "load_val"}
    /\ IF loadPos < Len(file)
       THEN LET line == file[loadPos + 1]
                ok == line.json /\ {"headline", "is_sarcastic"} \subseteq DOMAIN line.entry
                rec == <<line.entry.headline, line.entry.is_sarcastic>>
            IN  /\ loadPos' = loadPos + 1
                /\ train_data' = IF pc = "load_train" /\ ok THEN Append(train_data, rec) ELSE train_data
                /\ val_data' = IF pc = "load_val" /\ ok THEN Append(val_data, rec) ELSE val_data
                /\ UNCHANGED <<pc, err>>
       ELSE /\ loadPos' = 0
            /\ pc' = IF pc = "load_train" THEN "load_val" ELSE "m_setup"
            /\ UNCHANGED <<err, train_data, val_data>>
    /\ UNCHANGED <<file, ctx, modelVars, loopVars, mainVars, histVars,
                   train_ret, val_ret, passLog, did, entry, trained>>

DatasetInit ==
    /\ pc \in {"load_train", "load_val"}
    /\ IF loadPos < Len(file)
       THEN LET line == file[loadPos + 1]
            IN  IF ~line.json
                THEN Abort("JSONDecodeError") /\ UNCHANGED <<loadPos, train_data, val_data>>
                ELSE IF ~({"headline", "is_sarcastic"} \subseteq DOMAIN line.entry)
                THEN Abort("KeyError") /\ UNCHANGED <<loadPos, train_data, val_data>>
                ELSE LET rec == <<line.entry.headline, line.entry.is_sarcastic>>
                     IN  /\ loadPos' = loadPos + 1
                         /\ train_data' = IF pc = "load_train" THEN Append(train_data, rec) ELSE train_data
                         /\ val_data' = IF pc = "load_val" THEN Append(val_data, rec) ELSE val_data
                         /\ UNCHANGED <<pc, err>>
       ELSE /\ loadPos' = 0
            /\ pc' = IF pc = "load_train" THEN "load_val" ELSE "m_setup"
            /\ UNCHANGED <<err, train_data, val_data>>
    /\ UNCHANGED <<file, ctx, modelVars, loopVars, mainVars, histVars,
                   train_ret, val_ret, passLog, did, entry, trained>>

\* ------------------------------------------------------------------ main
\* lines 162-174: the loaders, the model, epochs, best_accuracy, the
\* criterion, the optimizer and the scheduler
MainSetup ==
    /\ pc = "m_setup"
    /\ epoch' = 0
    /\ best_accuracy' = <<0, 1>>
    /\ num_training_steps' = LoaderLen(DatasetLen(train_data)) * epochs
    /\ pc' = "m_epoch"
    /\ UNCHANGED <<dataVars, ctx, err, modelVars, loopVars, checkpoint, schedSteps,
                   histVars, train_ret, val_ret, passLog, did, entry, trained>>

\* for epoch in range(epochs): the call of train, or the end of the loop
MainEpoch ==
    /\ pc = "m_epoch"
    /\ pc' = IF epoch < epochs THEN "t_begin" ELSE "done"
    /\ UNCHANGED <<dataVars, ctx, err, modelVars, loopVars, mainVars, histVars,
                   train_ret, val_ret, passLog, did, entry, trained>>

\* train and evaluate end (by return or by exception): their locals are gone
DropLocals ==
    /\ it' = NoIter
    /\ batch' = <<>>
    /\ outputs' = <<>>
    /\ loss' = Fin(0)
    /\ total_loss' = Fin(0)
    /\ total_correct' = 0

\* model(input_ids, attention_mask): the outputs forward can return for batch
\* b; what dropout does depends on model.training
Forward(p, trn, b) ==
    IF trn
    THEN [1 .. Len(b) -> TrainRows(p)]
    ELSE {[i \in 1 .. Len(b) |-> EvalRow(p, b[i])]}

\* ----------------------------------------------------------------- train
\* lines 114-117: model.train(), the totals, and the iterator the for loop
\* takes from the shuffling loader
TrainBegin ==
    /\ pc = "t_begin"
    /\ training' = TRUE
    /\ total_loss' = Fin(0)
    /\ total_correct' = 0
    /\ \E o \in LoaderOrders(DatasetLen(train_data), TRUE) : it' = [order |-> o, pos |-> 0]
    /\ passLog' = <<>>
    /\ pc' = "t_next"
    /\ UNCHANGED <<dataVars, ctx, err, params, grad, optSteps, batch, outputs, loss,
                   mainVars, histVars, train_ret, val_ret, did, entry, trained>>

\* lines 117-120: the next batch of the iteration, or the end of the loop
TrainNext ==
    /\ pc = "t_next"
    /\ LET k == BatchSizeAt(DatasetLen(train_data), it.pos)
       IN  IF k > 0
           THEN /\ batch' = [i \in 1 .. k |-> GetItem(train_data, it.order[it.pos + i])]
                /\ it' = [it EXCEPT !.pos = @ + k]
                /\ passLog' = Append(passLog, BatchIndices(it, k))
                /\ did' = <<>>
                /\ pc' = "t_zero"
           ELSE /\ pc' = "t_ret"
                /\ UNCHANGED <<batch, it, passLog, did>>
    /\ UNCHANGED <<dataVars, ctx, err, modelVars, outputs, loss, total_loss, total_correct,
                   mainVars, histVars, train_ret, val_ret, entry, trained>>

\* line 122: optimizer.zero_grad()
TrainZeroGrad_skipped ==
    /\ pc = "t_zero"
    /\ did' = Append(did, "zero_grad")
    /\ pc' = "t_fwd"
    /\ UNCHANGED <<dataVars, ctx, err, modelVars, loopVars, mainVars, histVars,
                   train_ret, val_ret, passLog, entry, trained>>

TrainZeroGrad ==
    /\ pc = "t_zero"
    /\ grad' = NoGrad
    /\ did' = Append(did, "zero_grad")
    /\ pc' = "t_fwd"
    /\ UNCHANGED <<dataVars, ctx, err, params, training, optSteps, loopVars, mainVars,
                   histVars, train_ret, val_ret, passLog, entry, trained>>

\* line 123: outputs = model(input_ids, attention_mask)
TrainForward ==
    /\ pc = "t_fwd"
    /\ outputs' \in Forward(params, training, batch)
    /\ did' = Append(did, "forward")
    /\ pc' = "t_loss"
    /\ UNCHANGED <<dataVars, ctx, err, modelVars, it, batch, loss, total_loss, total_correct,
                   mainVars, histVars, train_ret, val_ret, passLog, entry, trained>>

\* line 124: loss = criterion(outputs, labels); nothing inspects the value
TrainLoss ==
    /\ pc = "t_loss"
    /\ loss' = CrossEntropy(outputs, batch)
    /\ nanSeen' = (nanSeen \/ ~loss'.finite)
    /\ did' = Append(did, "loss")
    /\ pc' = "t_bwd"
    /\ UNCHANGED <<dataVars, ctx, err, modelVars, it, batch, outputs, total_loss, total_correct,
                   mainVars, hist, ckptWrites, results, got, train_ret, val_ret, passLog,
                   entry, trained>>

\* line 125: loss.backward() adds this batch's gradients to the buffers
TrainBackward ==
    /\ pc = "t_bwd"
    /\ grad' = [from |-> grad.from \cup {Tag}, finite |-> grad.finite /\ loss.finite]
    /\ did' = Append(did, "backward")
    /\ pc' = "t_step"
    /\ UNCHANGED <<dataVars, ctx, err, params, training, optSteps, loopVars, mainVars,
                   histVars, train_ret, val_ret, passLog, entry, trained>>

\* line 126: optimizer.step(): finite gradients move the parameters somewhere,
\* gradients that are not finite make them NaN
TrainOptimizerStep_and_scheduler ==
    /\ pc = "t_step"
    /\ params' \in IF grad.finite THEN FiniteParams ELSE {NaNParams}
    /\ optSteps' = optSteps + 1
    /\ schedSteps' = schedSteps + 1
    /\ did' = Append(did, "step")
    /\ pc' = "t_acc"
    /\ UNCHANGED <<dataVars, ctx, err, training, grad, loopVars, epoch, best_accuracy,
                   checkpoint, num_training_steps, histVars, train_ret, val_ret, passLog,
                   entry, trained>>

TrainOptimizerStep ==
    /\ pc = "t_step"
    /\ params' \in IF grad.finite THEN FiniteParams ELSE {NaNParams}
    /\ optSteps' = optSteps + 1
    /\ did' = Append(did, "step")
    /\ pc' = "t_acc"
    /\ UNCHANGED <<dataVars, ctx, err, training, grad, loopVars, mainVars, histVars,
                   train_ret, val_ret, passLog, entry, trained>>

\* lines 128-129: the totals
TrainAccumulate ==
    /\ pc = "t_acc"
    /\ total_loss' = AddLoss(total_loss, loss)
    /\ total_correct' = total_correct + NumCorrect(outputs, batch)
    /\ pc' = "t_next"
    /\ UNCHANGED <<dataVars, ctx, err, modelVars, it, batch, outputs, loss, mainVars,
                   histVars, train_ret, val_ret, passLog, did, entry, trained>>

\* lines 131-133: the divisions, by zero when the loader has no batch, and
\* the return to main, which calls evaluate next
TrainReturn ==
    /\ pc = "t_ret"
    /\ IF LoaderLen(DatasetLen(train_data)) = 0
       THEN Abort("ZeroDivisionError") /\ UNCHANGED <<train_ret, trained>>
       ELSE /\ train_ret' = << <<total_loss, LoaderLen(DatasetLen(train_data))>>,
                               <<total_correct, DatasetLen(train_data)>> >>
            /\ trained' = params
            /\ pc' = "e_begin"
            /\ err' = err
    /\ DropLocals
    /\ UNCHANGED <<dataVars, ctx, modelVars, mainVars, histVars, val_ret, passLog, did, entry>>

\* -------------------------------------------------------------- evaluate
\* lines 136-140: model.eval(), the totals, torch.no_grad(), and the iterator
\* the for loop takes from the loader that does not shuffle
EvalBegin_no_eval_mode ==
    /\ pc = "e_begin"
    /\ total_loss' = Fin(0)
    /\ total_correct' = 0
    /\ \E o \in LoaderOrders(DatasetLen(val_data), FALSE) : it' = [order |-> o, pos |-> 0]
    /\ passLog' = <<>>
    /\ entry' = [params |-> params, grad |-> grad, optSteps |-> optSteps]
    /\ pc' = "e_next"
    /\ UNCHANGED <<dataVars, ctx, err, modelVars, batch, outputs, loss,
                   mainVars, histVars, train_ret, val_ret, did, trained>>

EvalBegin ==
    /\ pc = "e_begin"
    /\ training' = FALSE
    /\ total_loss' = Fin(0)
    /\ total_correct' = 0
    /\ \E o \in LoaderOrders(DatasetLen(val_data), FALSE) : it' = [order |-> o, pos |-> 0]
    /\ passLog' = <<>>
    /\ entry' = [params |-> params, grad |-> grad, optSteps |-> optSteps]
    /\ pc' = "e_next"
    /\ UNCHANGED <<dataVars, ctx, err, params, grad, optSteps, batch, outputs, loss,
                   mainVars, histVars, train_ret, val_ret, did, trained>>

\* lines 140-143: the next batch of the iteration, or the end of the loop
EvalNext ==
    /\ pc = "e_next"
    /\ LET k == BatchSizeAt(DatasetLen(val_data), it.pos)
       IN  IF k > 0
           THEN /\ batch' = [i \in 1 .. k |-> GetItem(val_data, it.order[it.pos + i])]
                /\ it' = [it EXCEPT !.pos = @ + k]
                /\ passLog' = Append(passLog, BatchIndices(it, k))
                /\ pc' = "e_fwd"
           ELSE /\ pc' = "e_ret"
                /\ UNCHANGED <<batch, it, passLog>>
    /\ UNCHANGED <<dataVars, ctx, err, modelVars, outputs, loss, total_loss, total_correct,
                   mainVars, histVars, train_ret, val_ret, did, entry, trained>>

\* lines 145-146: outputs = model(...); loss = criterion(outputs, labels)
EvalForward ==
    /\ pc = "e_fwd"
    /\ outputs' \in Forward(params, training, batch)
    /\ loss' = CrossEntropy(outputs', batch)
    /\ pc' = "e_acc"
    /\ UNCHANGED <<dataVars, ctx, err, modelVars, it, batch, total_loss, total_correct,
                   mainVars, histVars, train_ret, val_ret, passLog, did, entry, trained>>

\* lines 148-149: the totals
EvalAccumulate ==
    /\ pc = "e_acc"
    /\ total_loss' = AddLoss(total_loss, loss)
    /\ total_correct' = total_correct + NumCorrect(outputs, batch)
    /\ pc' = "e_next"
    /\ UNCHANGED <<dataVars, ctx, err, modelVars, it, batch, outputs, loss, mainVars,
                   histVars, train_ret, val_ret, passLog, did, entry, trained>>

\* lines 151-153: the divisions, by zero when the loader has no batch, and
\* the return to the caller
EvalReturn ==
    /\ pc = "e_ret"
    /\ IF LoaderLen(DatasetLen(val_data)) = 0
       THEN Abort("ZeroDivisionError") /\ UNCHANGED <<val_ret, results>>
       ELSE /\ val_ret' = << <<total_loss, LoaderLen(DatasetLen(val_data))>>,
                             <<total_correct, DatasetLen(val_data)>> >>
            /\ pc' = IF ctx = "main" THEN "m_sched" ELSE "call"
            /\ results' = IF ctx = "main" THEN results ELSE Append(results, val_ret')
            /\ err' = err
    /\ DropLocals
    /\ UNCHANGED <<dataVars, ctx, modelVars, mainVars, hist, ckptWrites, nanSeen,
                   got, train_ret, passLog, did, entry, trained>>

\* --------------------------------------------------- main, after evaluate
\* line 180: scheduler.step()
MainSchedulerStep ==
    /\ pc = "m_sched"
    /\ schedSteps' = schedSteps + 1
    /\ pc' = "m_ckpt"
    /\ UNCHANGED <<dataVars, ctx, err, modelVars, loopVars, epoch, best_accuracy, checkpoint,
                   num_training_steps, histVars, train_ret, val_ret, passLog, did, entry,
                   trained>>

\* line 185: val_accuracy > best_accuracy
Improved_or_tied(acc, best) == RatGE(acc, best)

Improved(acc, best) == RatGT(acc, best)

\* the entry an epoch leaves in the history
HistEntry(wrote, best) ==
    [val |-> val_ret[2], trained |-> trained, evaluated |-> entry.params,
     wrote |-> wrote, best |-> best]

\* lines 185-187 and the step of the for loop, whose next turn rebinds the
\* four metrics before anything reads them
MainCheckpoint_best_not_updated ==
    /\ pc = "m_ckpt"
    /\ IF Improved(val_ret[2], best_accuracy)
       THEN /\ checkpoint' = [exists |-> TRUE, state |-> params]
            /\ ckptWrites' = ckptWrites + 1
            /\ hist' = Append(hist, HistEntry(TRUE, best_accuracy))
       ELSE /\ hist' = Append(hist, HistEntry(FALSE, best_accuracy))
            /\ UNCHANGED <<checkpoint, ckptWrites>>
    /\ epoch' = epoch + 1
    /\ train_ret' = NoRet
    /\ val_ret' = NoRet
    /\ pc' = "m_epoch"
    /\ UNCHANGED <<dataVars, ctx, err, modelVars, loopVars, schedSteps, num_training_steps,
                   best_accuracy, nanSeen, results, got, passLog, did, entry, trained>>

MainCheckpoint ==
    /\ pc = "m_ckpt"
    /\ IF Improved(val_ret[2], best_accuracy)
       THEN /\ best_accuracy' = val_ret[2]
            /\ checkpoint' = [exists |-> TRUE, state |-> params]
            /\ ckptWrites' = ckptWrites + 1
            /\ hist' = Append(hist, HistEntry(TRUE, val_ret[2]))
       ELSE /\ hist' = Append(hist, HistEntry(FALSE, best_accuracy))
            /\ UNCHANGED <<best_accuracy, checkpoint, ckptWrites>>
    /\ epoch' = epoch + 1
    /\ train_ret' = NoRet
    /\ val_ret' = NoRet
    /\ pc' = "m_epoch"
    /\ UNCHANGED <<dataVars, ctx, err, modelVars, loopVars, schedSteps, num_training_steps,
                   nanSeen, results, got, passLog, did, entry, trained>>

\* ---------------------------------------------------------- main's run
Next ==
    \/ DatasetInit
    \/ MainSetup
    \/ MainEpoch
    \/ TrainBegin
    \/ TrainNext
    \/ TrainZeroGrad
    \/ TrainForward
    \/ TrainLoss
    \/ TrainBackward
    \/ TrainOptimizerStep
    \/ TrainAccumulate
    \/ TrainReturn
    \/ EvalBegin
    \/ EvalNext
    \/ EvalForward
    \/ EvalAccumulate
    \/ EvalReturn
    \/ MainSchedulerStep
    \/ MainCheckpoint

Spec == Init /\ [][Next]_vars

\* ------------------------------------------- evaluate, called on its own
\* the datasets a loader can be built on: any number of records, none too
Datasets == SeqsUpTo({<<h, l>> : h \in Headlines, l \in Classes}, MaxLines)

\* evaluate is handed some model, in either mode, and a loader that does not
\* shuffle
InitEval ==
    /\ InitCommon
    /\ file = <<>>
    /\ pc = "call"
    /\ ctx = "evaluate"
    /\ val_data \in Datasets
    /\ training \in BOOLEAN
    /\ params \in ParamSpace
    /\ got = <<>>

\* the caller calls evaluate again on the same model and loader
CallEvaluate ==
    /\ pc = "call"
    /\ ctx = "evaluate"
    /\ Len(results) < MaxCalls
    /\ pc' = "e_begin"
    /\ UNCHANGED <<dataVars, ctx, err, modelVars, loopVars, mainVars, histVars,
                   train_ret, val_ret, passLog, did, entry, trained>>

NextEval ==
    \/ CallEvaluate
    \/ EvalBegin
    \/ EvalNext
    \/ EvalForward
    \/ EvalAccumulate
    \/ EvalReturn

SpecEval == InitEval /\ [][NextEval]_vars

\* ---------------------------------------- __getitem__, called on its own
\* a dataset of records with headlines of every length
InitGet ==
    /\ InitCommon
    /\ file = <<>>
    /\ pc = "call"
    /\ ctx = "getitem"
    /\ val_data \in SeqsUpTo({<<t, l>> : t \in Texts, l \in Classes}, MaxRecords)
    /\ training = TRUE
    /\ params = NaNParams
    /\ got = [i \in 1 .. Len(val_data) |-> <<>>]

\* dataset[idx] for an idx within range
DatasetGetItem ==
    /\ pc = "call"
    /\ ctx = "getitem"
    /\ \E idx \in 1 .. DatasetLen(val_data) :
          /\ Len(got[idx]) < MaxCalls
          /\ got' = [got EXCEPT ![idx] = Append(@, GetItem(val_data, idx))]
    /\ UNCHANGED <<dataVars, pc, ctx, err, modelVars, loopVars, mainVars, hist, ckptWrites,
                   nanSeen, results, train_ret, val_ret, passLog, did, entry, trained>>

NextGet == DatasetGetItem

SpecGet == InitGet /\ [][NextGet]_vars

\* =============================================================== properties
Zero == <<0, 1>>
TrainLen == DatasetLen(train_data)
TrainPcs == {"t_begin", "t_next", "t_zero", "t_fwd", "t_loss", "t_bwd", "t_step", "t_acc", "t_ret"}
EvalPcs == {"e_begin", "e_next", "e_fwd", "e_acc", "e_ret"}

RECURSIVE Flatten(_)
Flatten(ss) == IF ss = <<>> THEN <<>> ELSE Head(ss) \o Flatten(Tail(ss))

\* epoch k's validation accuracy beats that of every epoch before it
BeatsPrevious(k) == \A j \in 1 .. (k - 1) : RatGT(hist[k].val, hist[j].val)

\* C1 as stated: a checkpoint is written at the end of epoch k exactly when
\* epoch k's validation accuracy is strictly greater than that of every earlier
\* epoch, a first epoch with accuracy 0.0 included.
C1_WriteIffBeatsPrevious ==
    \A k \in 1 .. Len(hist) : hist[k].wrote <=> BeatsPrevious(k)

\* C1, amended: a checkpoint is written at the end of epoch k exactly when
\* epoch k's validation accuracy is strictly greater than 0 and than that of
\* every earlier epoch; the number of writes is the number of such epochs.
C1_WriteIffBeatsPreviousAndZero ==
    /\ \A k \in 1 .. Len(hist) :
          hist[k].wrote <=> (RatGT(hist[k].val, Zero) /\ BeatsPrevious(k))
    /\ ckptWrites = Cardinality({k \in 1 .. Len(hist) :
                                    RatGT(hist[k].val, Zero) /\ BeatsPrevious(k)})

\* a run whose accuracies rise, tie, then rise: written, not written, written
C1_Witness ==
    /\ pc = "done"
    /\ Len(hist) = 3
    /\ hist[1].wrote /\ ~hist[2].wrote /\ hist[3].wrote
    /\ RatEQ(hist[1].val, hist[2].val)

\* C2: while evaluate runs and after it returns, the parameters, the gradient
\* buffers and the optimizer's step count are what they were when it was
\* entered, and two calls in a row return the same (mean loss, accuracy).
C2_EvaluateChangesNothing ==
    /\ (pc \in EvalPcs \ {"e_begin"} \/ results # <<>>) =>
          /\ params = entry.params
          /\ grad = entry.grad
          /\ optSteps = entry.optSteps
    /\ \A i, j \in 1 .. Len(results) : results[i] = results[j]

\* evaluate returned twice on three records, entered in train mode
C2_Witness ==
    /\ ctx = "evaluate"
    /\ Len(results) = 2
    /\ Len(val_data) = 3
    /\ params.finite

\* predictions that match their label, counted over the dataset record by record
CountCorrect(p, data) ==
    Cardinality({i \in 1 .. Len(data) : ArgMax(EvalRow(p, GetItem(data, i))) = data[i][2]})

AccuracyAsClaimed(ret) ==
    /\ ret[2] = <<CountCorrect(params, val_data), Len(val_data)>>
    /\ ret[2][2] > 0
    /\ 0 <= ret[2][1] /\ ret[2][1] <= ret[2][2]

\* C3 as stated: on any batch sequence, an empty one included, evaluate returns
\* an accuracy in [0, 1] equal to the matching predictions over the number of
\* examples.
C3_AccuracyOnAnyLoader ==
    /\ pc # "aborted"
    /\ \A i \in 1 .. Len(results) : AccuracyAsClaimed(results[i])

\* C3, amended: on any batch sequence that is not empty, evaluate returns an
\* accuracy in [0, 1] equal to the matching predictions over the number of
\* examples; on an empty one it raises ZeroDivisionError.
C3_AccuracyOnNonEmptyLoader ==
    /\ Len(val_data) > 0 =>
          /\ pc # "aborted"
          /\ \A i \in 1 .. Len(results) : AccuracyAsClaimed(results[i])
    /\ Len(val_data) = 0 => (results = <<>> /\ (pc = "aborted" => err = "ZeroDivisionError"))

\* evaluate returned 2/3 on three records, the last in a batch of its own
C3_Witness ==
    /\ ctx = "evaluate"
    /\ results # <<>>
    /\ results[1][2] = <<2, 3>>

\* the batches of a finished pass over n records: every record once, all
\* batches full but possibly the last, ceil(n / batch_size) of them
CoversOnce(log, n) ==
    /\ Len(Flatten(log)) = n
    /\ {Flatten(log)[i] : i \in 1 .. Len(Flatten(log))} = 1 .. n
    /\ Len(log) = CeilDiv(n, batch_size)
    /\ \A b \in 1 .. Len(log) :
          /\ Len(log[b]) >= 1 /\ Len(log[b]) <= batch_size
          /\ b < Len(log) => Len(log[b]) = batch_size

\* C4: a finished pass of train covers every record once in ceil(n / B)
\* batches of which only the last may be short, a pass of evaluate does so in
\* the dataset's order, and with n = 2 and B = 2 train takes one batch of two
\* and returns an accuracy of 0, 1/2 or 1.
C4_PassCoversDatasetOnce ==
    /\ pc = "t_ret" => CoversOnce(passLog, TrainLen)
    /\ pc = "e_ret" =>
          /\ CoversOnce(passLog, Len(val_data))
          /\ Flatten(passLog) = [i \in 1 .. Len(val_data) |-> i]
    /\ (pc = "e_begin" /\ ctx = "main" /\ TrainLen = 2 /\ batch_size = 2) =>
          /\ Len(passLog) = 1 /\ Len(passLog[1]) = 2
          /\ train_ret[2] \in {<<0, 2>>, <<1, 2>>, <<2, 2>>}

\* a finished training pass over three records, shuffled, the last batch short
C4_Witness ==
    /\ pc = "t_ret"
    /\ passLog = << <<3, 1>>, <<2>> >>

\* C5: a batch goes through zero_grad, forward, loss, backward, step in that
\* order; the step applies the gradients of the batch in hand alone; one step
\* per batch, so m batches into an epoch m steps of it are applied.
C5_OneStepPerBatchOnItsOwnGradients ==
    /\ pc = "t_step" => grad.from = {Tag}
    /\ pc = "t_acc" => did = <<"zero_grad", "forward", "loss", "backward", "step">>
    /\ pc \in {"t_zero", "t_fwd", "t_loss", "t_bwd", "t_step"} =>
          optSteps = epoch * LoaderLen(TrainLen) + Len(passLog) - 1
    /\ pc \in {"t_acc", "t_next"} => optSteps = epoch * LoaderLen(TrainLen) + Len(passLog)
    /\ pc = "t_ret" => optSteps = (epoch + 1) * LoaderLen(TrainLen)

\* the step of the second batch of the second epoch
C5_Witness ==
    /\ pc = "t_step"
    /\ epoch = 1
    /\ Len(passLog) = 2

\* C6: once a training loss is not finite the run is over: no training batch
\* is fetched, no epoch is finished and no checkpoint is written after it.
C6_NonFiniteLossEndsRun ==
    [][nanSeen => (pc' # "t_zero" /\ epoch' = epoch /\ ckptWrites' = ckptWrites)]_vars

HasBadLine == \E i \in 1 .. Len(file) : file[i] \notin GoodLines

\* C7: on a file with a line that is no JSON or lacks a field, the run never
\* gets past the construction of the first dataset: it ends there with the
\* parse error, no batch fetched, no optimizer step, no checkpoint.
C7_BadLineEndsRunBeforeTraining ==
    (ctx = "main" /\ HasBadLine) =>
       /\ pc \in {"load_train", "aborted"}
       /\ pc = "aborted" => err \in {"JSONDecodeError", "KeyError"}
       /\ pc = "load_train" => \A i \in 1 .. loadPos : file[i] \in GoodLines
       /\ val_data = <<>>
       /\ batch = <<>> /\ passLog = <<>>
       /\ optSteps = 0
       /\ ckptWrites = 0 /\ ~checkpoint.exists

\* the run ended on a missing field after two good lines were read
C7_Witness ==
    /\ pc = "aborted"
    /\ err = "KeyError"
    /\ Len(train_data) = 2

\* C8: every example __getitem__ returns has max_length token ids and
\* max_length mask entries, and a repeated call returns the same example.
C8_FixedLengthEncoding ==
    \A i \in DOMAIN got : \A j \in 1 .. Len(got[i]) :
       /\ Len(got[i][j].input_ids) = max_length
       /\ Len(got[i][j].attention_mask) = max_length
       /\ got[i][j] = got[i][1]

\* a record whose headline is longer than max_length, fetched twice
C8_Witness ==
    /\ ctx = "getitem"
    /\ \E i \in DOMAIN got : Len(got[i]) = 2 /\ Len(val_data[i][1]) > max_length

\* the first epoch whose validation accuracy is the best so far
FirstBest == CHOOSE k \in 1 .. Len(hist) :
                /\ RatEQ(hist[k].val, best_accuracy)
                /\ \A j \in 1 .. (k - 1) : ~RatEQ(hist[j].val, best_accuracy)

\* C9: at every epoch boundary best_accuracy has never decreased and is the
\* greatest of 0 and the validation accuracies so far; a checkpoint exists
\* exactly when it is above 0, and holds the parameters the first epoch that
\* attained it trained and evaluated.
C9_CheckpointIsFirstBest ==
    pc \in {"m_epoch", "done"} =>
       /\ RatGE(best_accuracy, Zero)
       /\ \A k \in 1 .. Len(hist) : RatGE(best_accuracy, hist[k].val)
       /\ RatEQ(best_accuracy, Zero) \/ \E k \in 1 .. Len(hist) : RatEQ(best_accuracy, hist[k].val)
       /\ \A k \in 1 .. Len(hist) :
             /\ RatGE(hist[k].best, IF k = 1 THEN Zero ELSE hist[k - 1].best)
             /\ k = Len(hist) => RatEQ(hist[k].best, best_accuracy)
       /\ checkpoint.exists <=> RatGT(best_accuracy, Zero)
       /\ checkpoint.exists =>
             /\ checkpoint.state = hist[FirstBest].trained
             /\ checkpoint.state = hist[FirstBest].evaluated

\* the third epoch ties the first with other parameters and is not saved
C9_Witness ==
    /\ pc = "done"
    /\ checkpoint.exists
    /\ RatEQ(hist[3].val, hist[1].val) /\ RatEQ(hist[1].val, best_accuracy)
    /\ hist[3].trained # hist[1].trained
    /\ checkpoint.state = hist[1].trained

\* C10: the scheduler is stepped once per epoch, after evaluate and never
\* within a pass; a finished run has stepped it epochs times and the optimizer
\* num_training_steps = len(train_loader) * epochs times, so with more than one
\* batch per pass the scheduler stays short of num_training_steps.
C10_SchedulerStepsPerEpoch ==
    /\ pc \in TrainPcs \cup EvalPcs \cup {"m_sched", "m_epoch", "done"} => schedSteps = epoch
    /\ pc = "m_ckpt" => schedSteps = epoch + 1
    /\ pc = "done" =>
          /\ schedSteps = epochs
          /\ optSteps = LoaderLen(TrainLen) * epochs
          /\ optSteps = num_training_steps
    /\ (pc \notin {"load_train", "load_val", "m_setup", "aborted"} /\ LoaderLen(TrainLen) > 1) =>
          schedSteps < num_training_steps

\* a finished run on a loader of two batches
C10_Witness ==
    /\ pc = "done"
    /\ LoaderLen(TrainLen) = 2
    /\ schedSteps = 3
    /\ optSteps = 6

====
